---- MODULE Spec2Model ----
(***************************************************************************)
(* work_queue<T> (src/work_queue.h): a bounded FIFO of std::unique_ptr<T>  *)
(* guarded by one mutex, with a condition variable for the blocking        *)
(* dequeue and an application-owned atomic<bool> halt flag.                *)
(*                                                                         *)
(* Work items are the integers 1, 2, ... in order of creation; NULL is the *)
(* empty std::unique_ptr.  Every step that runs under the mutex and reads  *)
(* the halt flag is one action (the flag is written outside the mutex, so  *)
(* two reads of it are two steps); the bulk enqueue is one action per      *)
(* pop and per push, all of them with the mutex held.                      *)
(*                                                                         *)
(* std::queue::pop() on an empty std::deque is undefined behaviour.  The   *)
(* two outcomes builds of this code produce are both modelled:             *)
(*   "abort": -D_GLIBCXX_ASSERTIONS, the process ends in std::abort();     *)
(*   "skew" : the plain libstdc++ build, the deque's start cursor moves    *)
(*            past its finish cursor, and the next push_back writes into   *)
(*            a slot no pop will ever reach (the pushed item is leaked).   *)
(***************************************************************************)
EXTENDS Integers, Sequences, FiniteSets, TLC

\* ------------------------------------------------------------------ bounds
MaxDepth == 2   \* largest max_depth given to the constructor
MaxItems == 3   \* unique_ptrs handed to accepted enqueues over a run

NULL == 0       \* the empty std::unique_ptr<T>{}

Producers == {"p1", "p2"}
Consumers == {"c1", "c2"}
Free      == "free"
PopOutcomes == {"skew", "abort"}

VARIABLES
    shutting_down,    \* std::atomic<bool> & shutting_down (owned by the application)
    max,              \* size_t max
    unguarded_queue,  \* std::queue<std::unique_ptr<T>>: the live elements, head first
    skew,             \* slots by which the deque's start cursor is past its finish
    n_dropped,        \* int n_dropped
    n_handled,        \* int n_handled
    m,                \* std::mutex m: the thread holding it, or Free
    ppc,              \* producer -> "idle" | "evict" | "push" | "notify"
    cpc,              \* consumer -> "idle" | "loop" | "blocked" | "timedout" | "woken" | "exit"
    bulk,             \* the caller's vector of the bulk enqueue in progress or last finished
    evictLeft,        \* iterations left of the loop of line 99
    idx,              \* position of the push loop of line 105 in bulk
    aborted,          \* the process has ended in std::abort()
    nextId,           \* the number of the next unique_ptr handed to an accepted enqueue
    pushed,           \* history: items moved into the queue, in push order
    evicted,          \* history: entries removed from the queue by an enqueue
    returned,         \* history: items returned by dequeue, in order
    call,             \* history: the enqueue in progress or last finished
    event,            \* history: the last operation that returned
    polled            \* history: what dropped() and handled() have returned so far

vars == <<shutting_down, max, unguarded_queue, skew, n_dropped, n_handled, m,
          ppc, cpc, bulk, evictLeft, idx, aborted, nextId, pushed, evicted,
          returned, call, event, polled>>

queueVars == <<unguarded_queue, skew, n_dropped, n_handled>>
histVars  == <<pushed, evicted, returned>>

\* ------------------------------------------------------- pure operations

\* std::queue::size() and empty() of the deque.  Both are read only right
\* after the mutex is taken, where skew = 0 (SkewOnlyUnderLock below).
QSize(q) == Len(q)
QEmpty(q, sk) == Len(q) = 0 /\ sk = 0

\* std::queue::push appends at the tail.
\* (QPush_AtHead: the variant that inserts at the head.)
QPush_AtHead(q, x) == <<x>> \o q
QPush(q, x) == Append(q, x)

\* std::queue::front and pop on a non-empty queue
QFront(q) == Head(q)
QPop(q) == Tail(q)

\* line 62: if (shutting_down || !work_item) return;
Refuses(sd, w) == sd \/ w = NULL

\* line 87: if (shutting_down) return;
\* (BulkRefuses_Never: the variant without the check.)
BulkRefuses_Never(sd) == FALSE
BulkRefuses(sd) == sd

\* lines 90-92: the number of non-empty unique_ptrs of the vector
BulkSize(v) == Cardinality({i \in DOMAIN v : v[i] # NULL})

\* line 64: if (unguarded_queue.size() >= max)
Saturated(size, mx) == size >= mx

\* lines 97-99: plus_bulk = size + bulk_size; the loop runs plus_bulk - max times
\* when plus_bulk > max.  (plus_bulk is an int: the sum is exact below 2^31.)
Evictions(size, bulk_size, mx) ==
    LET plus_bulk == size + bulk_size
    IN  IF plus_bulk > mx THEN plus_bulk - mx ELSE 0

\* line 122: waiting = unguarded_queue.empty() && !shutting_down
InitialWaiting(sd, q, sk) == QEmpty(q, sk) /\ ~sd

\* line 125: the predicate of wait_for
WaitPred(sd, q, sk) == sd \/ ~QEmpty(q, sk)

\* line 128: if (shutting_down) return std::unique_ptr<T>{};
\* (HaltCheck_Never: the variant that drains the queue after the halt.)
HaltCheck_Never(sd) == FALSE
HaltCheck(sd) == sd

\* ------------------------------------------------------------------ Init

NoCall == [q0 |-> <<>>, d0 |-> 0, n |-> 0, len |-> 0,
           pops |-> 0, removed |-> <<>>, done |-> FALSE]
NoEvent == [op |-> "none", val |-> NULL]
\* sumD, sumH: the sums of the values dropped() and handled() have returned;
\* markD, markH: the evictions and the item-returning dequeues there had been
\* when dropped() and handled() were last called.
NoPoll == [sumD |-> 0, sumH |-> 0, markD |-> 0, markH |-> 0]

Init ==
    /\ shutting_down = FALSE
    /\ max \in 1..MaxDepth
    /\ unguarded_queue = <<>>
    /\ skew = 0
    /\ n_dropped = 0
    /\ n_handled = 0
    /\ m = Free
    /\ ppc = [p \in Producers |-> "idle"]
    /\ cpc = [c \in Consumers |-> "idle"]
    /\ bulk = <<>>
    /\ evictLeft = 0
    /\ idx = 1
    /\ aborted = FALSE
    /\ nextId = 1
    /\ pushed = <<>>
    /\ evicted = <<>>
    /\ returned = <<>>
    /\ call = NoCall
    /\ event = NoEvent
    /\ polled = NoPoll


\* ------------------------------------------------- the deque, one call

\* unguarded_queue.pop() as an enqueue calls it: on an empty deque the
\* behaviour is undefined, and `how` is the outcome the build produces.
PopStep(q, sk, how) ==
    IF Len(q) > 0
    THEN [q |-> QPop(q), sk |-> sk, removed |-> <<QFront(q)>>, abort |-> FALSE]
    ELSE IF how = "abort"
         THEN [q |-> q, sk |-> sk, removed |-> <<>>, abort |-> TRUE]
         ELSE [q |-> q, sk |-> sk + 1, removed |-> <<>>, abort |-> FALSE]

\* unguarded_queue.push(std::move(x))
PushStep(q, sk, x) ==
    IF sk > 0 THEN [q |-> q, sk |-> sk - 1] ELSE [q |-> QPush(q, x), sk |-> 0]

NonNull(s) == SelectSeq(s, LAMBDA x : x # NULL)

\* --------------------------------------------------------------- enqueue

\* void enqueue(std::unique_ptr<T> work_item): lines 58-69, one critical
\* section with one read of the halt flag.
enqueue(p, w) ==
    /\ ~aborted
    /\ ppc[p] = "idle"
    /\ m = Free
    /\ IF Refuses(shutting_down, w)
       THEN /\ event' = [op |-> "enqueue_refused", val |-> NULL]
            /\ UNCHANGED <<shutting_down, max, polled, queueVars, m, ppc, cpc, bulk,
                           evictLeft, idx, aborted, nextId, histVars, call>>
       ELSE \E how \in PopOutcomes :
            LET sat == Saturated(QSize(unguarded_queue), max)
                r   == IF sat THEN PopStep(unguarded_queue, skew, how)
                       ELSE [q |-> unguarded_queue, sk |-> skew,
                             removed |-> <<>>, abort |-> FALSE]
                s   == PushStep(r.q, r.sk, w)
            IN  /\ n_dropped' = IF sat THEN n_dropped + 1 ELSE n_dropped
                /\ IF r.abort
                   THEN /\ aborted' = TRUE
                        /\ UNCHANGED <<unguarded_queue, skew, ppc, nextId,
                                       histVars, call, event>>
                   ELSE /\ unguarded_queue' = s.q
                        /\ skew' = s.sk
                        /\ ppc' = [ppc EXCEPT ![p] = "notify"]
                        /\ nextId' = nextId + 1
                        /\ pushed' = Append(pushed, w)
                        /\ evicted' = evicted \o r.removed
                        /\ call' = [q0 |-> unguarded_queue,
                                    d0 |-> n_dropped, n |-> 1, len |-> 1,
                                    pops |-> IF sat THEN 1 ELSE 0,
                                    removed |-> r.removed, done |-> TRUE]
                        /\ event' = [op |-> "enqueue", val |-> NULL]
                        /\ UNCHANGED <<aborted, returned>>
                /\ UNCHANGED <<shutting_down, max, polled, n_handled, m, cpc, bulk,
                               evictLeft, idx>>

\* cv.notify_one(), lines 71 and 110: after the mutex is released
notify_one(p) ==
    /\ ~aborted
    /\ ppc[p] = "notify"
    /\ ppc' = [ppc EXCEPT ![p] = "idle"]
    /\ \/ \E c \in Consumers :
            /\ cpc[c] = "blocked"
            /\ cpc' = [cpc EXCEPT ![c] = "woken"]
       \/ /\ \A c \in Consumers : cpc[c] # "blocked"
          /\ UNCHANGED cpc
    /\ UNCHANGED <<shutting_down, max, polled, queueVars, m, bulk, evictLeft, idx,
                   aborted, nextId, histVars, call, event>>

\* ---------------------------------------------------------- bulk enqueue

\* The vectors a caller can pass: `shape` says which elements are non-empty;
\* the non-empty ones are fresh items, numbered by their place in the vector.
Vector(shape, first) ==
    [i \in DOMAIN shape |-> IF shape[i] THEN first + i - 1 ELSE NULL]

Shapes == UNION {[1..n -> BOOLEAN] : n \in 0..MaxItems}

\* void enqueue(std::vector<std::unique_ptr<T>> & bulk), lines 85-97: lock,
\* the halt check, the count of non-empty elements, the eviction count.
\* A call that returns at line 87 or 95 leaves the caller's vector as it was.
bulk_enter(p, v) ==
    /\ ~aborted
    /\ ppc[p] = "idle"
    /\ m = Free
    /\ IF BulkRefuses(shutting_down)
       THEN /\ event' = [op |-> "bulk_refused", val |-> BulkSize(v)]
            /\ UNCHANGED <<m, ppc, bulk, evictLeft, idx, nextId, call>>
       ELSE IF BulkSize(v) = 0
       THEN /\ event' = [op |-> "bulk_empty", val |-> NULL]
            /\ UNCHANGED <<m, ppc, bulk, evictLeft, idx, nextId, call>>
       ELSE LET n == Evictions(QSize(unguarded_queue), BulkSize(v), max)
            IN  /\ m' = p
                /\ bulk' = v
                /\ evictLeft' = n
                /\ idx' = 1
                /\ ppc' = [ppc EXCEPT ![p] = IF n > 0 THEN "evict" ELSE "push"]
                /\ nextId' = nextId + Len(v)
                /\ call' = [q0 |-> unguarded_queue, d0 |-> n_dropped,
                            n |-> BulkSize(v), len |-> Len(v), pops |-> 0,
                            removed |-> <<>>, done |-> FALSE]
                /\ UNCHANGED event
    /\ UNCHANGED <<shutting_down, max, polled, queueVars, cpc, aborted, histVars>>

\* lines 99-102: one iteration of the eviction loop
bulk_evict(p) ==
    /\ ~aborted
    /\ ppc[p] = "evict"
    /\ m = p
    /\ n_dropped' = n_dropped + 1
    /\ \E how \in PopOutcomes :
        LET r == PopStep(unguarded_queue, skew, how)
        IN  IF r.abort
            THEN /\ aborted' = TRUE
                 /\ UNCHANGED <<unguarded_queue, skew, ppc, evictLeft, evicted, call>>
            ELSE /\ unguarded_queue' = r.q
                 /\ skew' = r.sk
                 /\ evictLeft' = evictLeft - 1
                 /\ ppc' = [ppc EXCEPT ![p] = IF evictLeft = 1 THEN "push" ELSE "evict"]
                 /\ evicted' = evicted \o r.removed
                 /\ call' = [call EXCEPT !.pops = @ + 1,
                                         !.removed = @ \o r.removed]
                 /\ UNCHANGED aborted
    /\ UNCHANGED <<shutting_down, max, polled, n_handled, m, cpc, bulk, idx, nextId,
                   pushed, returned, event>>

\* lines 105-108: one iteration of the push loop, which moves every element
\* of the vector, empty or not; the last one leaves the locked context.
bulk_push(p) ==
    /\ ~aborted
    /\ ppc[p] = "push"
    /\ m = p
    /\ LET x == bulk[idx]
           s == PushStep(unguarded_queue, skew, x)
           last == idx = Len(bulk)
           moved == [bulk EXCEPT ![idx] = NULL]
       IN  /\ unguarded_queue' = s.q
           /\ skew' = s.sk
           /\ pushed' = IF x # NULL THEN Append(pushed, x) ELSE pushed
           /\ bulk' = moved
           /\ idx' = idx + 1
           /\ ppc' = [ppc EXCEPT ![p] = IF last THEN "notify" ELSE "push"]
           /\ m' = IF last THEN Free ELSE p
           /\ call' = [call EXCEPT !.done = last]
           /\ event' = IF last THEN [op |-> "bulk", val |-> NULL]
                       ELSE event
    /\ UNCHANGED <<shutting_down, max, polled, n_dropped, n_handled, cpc, evictLeft,
                   aborted, nextId, evicted, returned>>

\* --------------------------------------------------------------- dequeue

GARBAGE == -1   \* the indeterminate value of a function that ends without return
FallOffOutcomes == {"abort", "garbage"}

\* lines 121-122: lock, waiting = unguarded_queue.empty() && !shutting_down
dequeue_enter(c) ==
    /\ ~aborted
    /\ cpc[c] = "idle"
    /\ m = Free
    /\ m' = c
    /\ cpc' = [cpc EXCEPT ![c] =
                 IF InitialWaiting(shutting_down, unguarded_queue, skew)
                 THEN "loop" ELSE "exit"]
    /\ UNCHANGED <<shutting_down, max, polled, queueVars, ppc, bulk, evictLeft, idx,
                   aborted, nextId, histVars, call, event>>

\* lines 124-125: while (waiting) calls wait_for, which tests its predicate
\* first and, when it is false, releases the mutex and sleeps.
dequeue_wait_for(c) ==
    /\ ~aborted
    /\ cpc[c] = "loop"
    /\ m = c
    /\ IF WaitPred(shutting_down, unguarded_queue, skew)
       THEN /\ cpc' = [cpc EXCEPT ![c] = "exit"]
            /\ UNCHANGED m
       ELSE /\ cpc' = [cpc EXCEPT ![c] = "blocked"]
            /\ m' = Free
    /\ UNCHANGED <<shutting_down, max, polled, queueVars, ppc, bulk, evictLeft, idx,
                   aborted, nextId, histVars, call, event>>

\* line 125: wait_interval ms have passed without a notification
wait_timeout(c) ==
    /\ ~aborted
    /\ cpc[c] = "blocked"
    /\ cpc' = [cpc EXCEPT ![c] = "timedout"]
    /\ UNCHANGED <<shutting_down, max, polled, queueVars, m, ppc, bulk, evictLeft, idx,
                   aborted, nextId, histVars, call, event>>

\* line 125: a spurious wake-up of the condition variable
wait_spurious(c) ==
    /\ ~aborted
    /\ cpc[c] = "blocked"
    /\ cpc' = [cpc EXCEPT ![c] = "woken"]
    /\ UNCHANGED <<shutting_down, max, polled, queueVars, m, ppc, bulk, evictLeft, idx,
                   aborted, nextId, histVars, call, event>>

\* line 125: the woken thread takes the mutex again inside wait_for.  After a
\* timeout wait_for returns pred(), and a false result runs the while loop
\* of line 124 again; after a notification it tests pred() and sleeps again
\* when it is false.
dequeue_reacquire(c) ==
    /\ ~aborted
    /\ cpc[c] \in {"timedout", "woken"}
    /\ m = Free
    /\ IF WaitPred(shutting_down, unguarded_queue, skew)
       THEN /\ cpc' = [cpc EXCEPT ![c] = "exit"]
            /\ m' = c
       ELSE IF cpc[c] = "timedout"
       THEN /\ cpc' = [cpc EXCEPT ![c] = "loop"]
            /\ m' = c
       ELSE /\ cpc' = [cpc EXCEPT ![c] = "blocked"]
            /\ UNCHANGED m
    /\ UNCHANGED <<shutting_down, max, polled, queueVars, ppc, bulk, evictLeft, idx,
                   aborted, nextId, histVars, call, event>>

\* lines 128-136: the two exit cases, and the end of the function reached
\* with the flag false and the queue empty (no return statement: undefined).
dequeue_exit(c) ==
    /\ ~aborted
    /\ cpc[c] = "exit"
    /\ m = c
    /\ IF HaltCheck(shutting_down)
       THEN /\ event' = [op |-> "dequeue", val |-> NULL]
            /\ cpc' = [cpc EXCEPT ![c] = "idle"]
            /\ m' = Free
            /\ UNCHANGED <<queueVars, returned, aborted>>
       ELSE IF ~QEmpty(unguarded_queue, skew)
       THEN LET val == QFront(unguarded_queue)
            IN  /\ n_handled' = n_handled + 1
                /\ unguarded_queue' = QPop(unguarded_queue)
                /\ returned' = IF val # NULL THEN Append(returned, val) ELSE returned
                /\ event' = [op |-> "dequeue", val |-> val]
                /\ cpc' = [cpc EXCEPT ![c] = "idle"]
                /\ m' = Free
                /\ UNCHANGED <<skew, n_dropped, aborted>>
       ELSE \E how \in FallOffOutcomes :
                /\ aborted' = (how = "abort")
                /\ event' = [op |-> "dequeue", val |-> GARBAGE]
                /\ cpc' = [cpc EXCEPT ![c] = "idle"]
                /\ m' = Free
                /\ UNCHANGED <<queueVars, returned>>
    /\ UNCHANGED <<shutting_down, max, polled, ppc, bulk, evictLeft, idx, nextId,
                   pushed, evicted, call>>

\* --------------------------------------------------------- the application

\* the owner of the halt flag sets it (once) to start the shutdown
set_halt ==
    /\ ~aborted
    /\ ~shutting_down
    /\ shutting_down' = TRUE
    /\ UNCHANGED <<max, polled, queueVars, m, ppc, cpc, bulk, evictLeft, idx, aborted,
                   nextId, histVars, call, event>>

\* ------------------------------------------------------------------ Next

Next ==
    \/ \E p \in Producers : \E w \in {NULL, nextId} :
          /\ nextId <= MaxItems
          /\ enqueue(p, w)
    \/ \E p \in Producers : \E shape \in Shapes :
          /\ nextId + Len(shape) <= MaxItems + 1
          /\ bulk_enter(p, Vector(shape, nextId))
    \/ \E p \in Producers : bulk_evict(p)
    \/ \E p \in Producers : bulk_push(p)
    \/ \E p \in Producers : notify_one(p)
    \/ \E c \in Consumers : dequeue_enter(c)
    \/ \E c \in Consumers : dequeue_wait_for(c)
    \/ \E c \in Consumers : wait_timeout(c)
    \/ \E c \in Consumers : wait_spurious(c)
    \/ \E c \in Consumers : dequeue_reacquire(c)
    \/ \E c \in Consumers : dequeue_exit(c)
    \/ set_halt

Spec == Init /\ [][Next]_vars


\* ------------------------------------------------------------- observers

\* The value size() returns: lines 145-147.
SizeResult_IgnoreHalt(sd, q) == QSize(q)
SizeResult(sd, q) == IF sd THEN 0 ELSE QSize(q)

\* size_t size() const: lines 142-148, one critical section.
size ==
    /\ ~aborted
    /\ m = Free
    /\ event' = [op |-> "size", val |-> SizeResult(shutting_down, unguarded_queue)]
    /\ UNCHANGED <<shutting_down, max, polled, queueVars, m, ppc, cpc, bulk,
                   evictLeft, idx, aborted, nextId, histVars, call>>

NextSize == Next \/ size

SpecSize == Init /\ [][NextSize]_vars

\* int dropped(): lines 156-162, read and reset in one critical section.
dropped ==
    /\ ~aborted
    /\ m = Free
    /\ event' = [op |-> "dropped", val |-> n_dropped]
    /\ n_dropped' = 0
    /\ polled' = [polled EXCEPT !.sumD = @ + n_dropped, !.markD = Len(evicted)]
    /\ UNCHANGED <<shutting_down, max, unguarded_queue, skew, n_handled, m, ppc,
                   cpc, bulk, evictLeft, idx, aborted, nextId, histVars, call>>

\* int handled(): lines 169-175, read and reset in one critical section.
handled ==
    /\ ~aborted
    /\ m = Free
    /\ event' = [op |-> "handled", val |-> n_handled]
    /\ n_handled' = 0
    /\ polled' = [polled EXCEPT !.sumH = @ + n_handled, !.markH = Len(returned)]
    /\ UNCHANGED <<shutting_down, max, unguarded_queue, skew, n_dropped, m, ppc,
                   cpc, bulk, evictLeft, idx, aborted, nextId, histVars, call>>

NextPoll == Next \/ dropped \/ handled

SpecPoll == Init /\ [][NextPoll]_vars

\* ---------------------------------------------------------------- setMax

\* The capacities the application asks for: at least 1.
Capacities == 1..MaxDepth

\* A setMax that would also trim the queue to the new capacity.
setMax_Evicting(value) ==
    LET over == IF Len(unguarded_queue) > value
                THEN Len(unguarded_queue) - value ELSE 0
    IN  /\ ~aborted
        /\ m = Free
        /\ max' = value
        /\ unguarded_queue' = SubSeq(unguarded_queue, over + 1, Len(unguarded_queue))
        /\ n_dropped' = n_dropped + over
        /\ evicted' = evicted \o SubSeq(unguarded_queue, 1, over)
        /\ event' = [op |-> "setMax", val |-> value]
        /\ UNCHANGED <<shutting_down, polled, skew, n_handled, m, ppc, cpc, bulk,
                       evictLeft, idx, aborted, nextId, pushed, returned, call>>

\* void setMax(const size_t &value): lines 181-184, one critical section.
setMax(value) ==
    /\ ~aborted
    /\ m = Free
    /\ max' = value
    /\ event' = [op |-> "setMax", val |-> value]
    /\ UNCHANGED <<shutting_down, polled, queueVars, m, ppc, cpc, bulk,
                   evictLeft, idx, aborted, nextId, histVars, call>>

\* Batches without an empty element, as populate_workpieces builds them.
FullShapes == UNION {[1..n -> {TRUE}] : n \in 0..MaxItems}

NextMax ==
    \/ \E p \in Producers : \E w \in {NULL, nextId} :
          /\ nextId <= MaxItems
          /\ enqueue(p, w)
    \/ \E p \in Producers : \E shape \in FullShapes :
          /\ nextId + Len(shape) <= MaxItems + 1
          /\ bulk_enter(p, Vector(shape, nextId))
    \/ \E p \in Producers : bulk_evict(p)
    \/ \E p \in Producers : bulk_push(p)
    \/ \E p \in Producers : notify_one(p)
    \/ \E c \in Consumers : dequeue_enter(c)
    \/ \E c \in Consumers : dequeue_wait_for(c)
    \/ \E c \in Consumers : wait_timeout(c)
    \/ \E c \in Consumers : wait_spurious(c)
    \/ \E c \in Consumers : dequeue_reacquire(c)
    \/ \E c \in Consumers : dequeue_exit(c)
    \/ set_halt
    \/ \E value \in Capacities : setMax(value)

SpecMax == Init /\ [][NextMax]_vars

\* ------------------------------------------------------ clearing the flag

\* The application clears the halt flag (haltflag = false); no lock guards it.
clear_halt ==
    /\ ~aborted
    /\ shutting_down
    /\ shutting_down' = FALSE
    /\ UNCHANGED <<max, polled, queueVars, m, ppc, cpc, bulk, evictLeft, idx,
                   aborted, nextId, histVars, call, event>>

NextToggle == Next \/ clear_halt

SpecToggle == Init /\ [][NextToggle]_vars

\* --------------------------- the earlier value-type revision (part_000)

\* void enqueue(T work_item): part_000 lines 51-60.  No halt check, and the
\* pop of line 55 does not touch n_dropped; the queue it pops has
\* size >= max >= 1 entries.
enqueue_000(p, w) ==
    /\ ~aborted
    /\ ppc[p] = "idle"
    /\ m = Free
    /\ LET sat     == Saturated(QSize(unguarded_queue), max)
           removed == IF sat THEN <<QFront(unguarded_queue)>> ELSE <<>>
           q1      == IF sat THEN QPop(unguarded_queue) ELSE unguarded_queue
       IN  /\ unguarded_queue' = QPush(q1, w)
           /\ evicted' = evicted \o removed
           /\ pushed' = Append(pushed, w)
           /\ call' = [q0 |-> unguarded_queue, d0 |-> n_dropped, n |-> 1, len |-> 1,
                       pops |-> IF sat THEN 1 ELSE 0, removed |-> removed,
                       done |-> TRUE]
    /\ ppc' = [ppc EXCEPT ![p] = "notify"]
    /\ nextId' = nextId + 1
    /\ event' = [op |-> "enqueue", val |-> NULL]
    /\ UNCHANGED <<shutting_down, max, polled, skew, n_dropped, n_handled, m, cpc,
                   bulk, evictLeft, idx, aborted, returned>>

\* T dequeue(): part_000 lines 68-69; the wait loop is always entered.
dequeue_enter_000(c) ==
    /\ ~aborted
    /\ cpc[c] = "idle"
    /\ m = Free
    /\ m' = c
    /\ cpc' = [cpc EXCEPT ![c] = "loop"]
    /\ UNCHANGED <<shutting_down, max, polled, queueVars, ppc, bulk, evictLeft,
                   idx, aborted, nextId, histVars, call, event>>

\* "T val;" of part_000 line 74 when the queue is empty: the null value of a
\* class type, an indeterminate value of a scalar type.
EmptyReturn_000 == {NULL, GARBAGE}

\* part_000 lines 74-82: no halt check; the head if there is one.
dequeue_exit_000(c) ==
    /\ ~aborted
    /\ cpc[c] = "exit"
    /\ m = c
    /\ IF ~QEmpty(unguarded_queue, skew)
       THEN LET val == QFront(unguarded_queue)
            IN  /\ n_handled' = n_handled + 1
                /\ unguarded_queue' = QPop(unguarded_queue)
                /\ returned' = Append(returned, val)
                /\ event' = [op |-> "dequeue", val |-> val]
       ELSE /\ \E v \in EmptyReturn_000 : event' = [op |-> "dequeue", val |-> v]
            /\ UNCHANGED <<unguarded_queue, n_handled, returned>>
    /\ cpc' = [cpc EXCEPT ![c] = "idle"]
    /\ m' = Free
    /\ UNCHANGED <<shutting_down, max, polled, skew, n_dropped, ppc, bulk,
                   evictLeft, idx, aborted, nextId, pushed, evicted, call>>

\* int dropped(): part_000 lines 98-104.
dropped_000 ==
    /\ ~aborted
    /\ m = Free
    /\ event' = [op |-> "dropped", val |-> n_dropped]
    /\ n_dropped' = 0
    /\ polled' = [polled EXCEPT !.sumD = @ + n_dropped, !.markD = Len(evicted)]
    /\ UNCHANGED <<shutting_down, max, unguarded_queue, skew, n_handled, m, ppc,
                   cpc, bulk, evictLeft, idx, aborted, nextId, histVars, call>>

\* The wait_for of part_000 line 72 is the one of work_queue.h line 125, and
\* notify_one (line 59) the one of line 71.
Next000 ==
    \/ \E p \in Producers : /\ nextId <= MaxItems
                             /\ enqueue_000(p, nextId)
    \/ \E p \in Producers : notify_one(p)
    \/ \E c \in Consumers : dequeue_enter_000(c)
    \/ \E c \in Consumers : dequeue_wait_for(c)
    \/ \E c \in Consumers : wait_timeout(c)
    \/ \E c \in Consumers : wait_spurious(c)
    \/ \E c \in Consumers : dequeue_reacquire(c)
    \/ \E c \in Consumers : dequeue_exit_000(c)
    \/ set_halt
    \/ dropped_000

Spec000 == Init /\ [][Next000]_vars

\* The scheduler is fair to every thread that can take a step: a timed wait
\* ends, a thread holding the mutex runs on, and a thread waiting for the
\* mutex gets it when it is free again and again.
FairSpec ==
    /\ Spec
    /\ \A c \in Consumers :
          /\ WF_vars(wait_timeout(c))
          /\ SF_vars(dequeue_reacquire(c))
          /\ WF_vars(dequeue_wait_for(c))
          /\ WF_vars(dequeue_exit(c))
    /\ \A p \in Producers :
          /\ WF_vars(bulk_evict(p))
          /\ WF_vars(bulk_push(p))
          /\ WF_vars(notify_one(p))

\* The start cursor of the deque is past its finish cursor only inside a bulk
\* enqueue that holds the mutex: every push loop is longer than the pops on
\* the empty deque before it (max >= 1), so size() and empty() never see it.
SkewOnlyUnderLock ==
    /\ skew > 0 => (m \in Producers /\ ppc[m] \in {"evict", "push"})
    /\ m \in Consumers => cpc[m] \in {"loop", "exit"}

\* ---------------------------------------------------------------- claims

Occ(s, x) == Cardinality({i \in DOMAIN s : s[i] = x})
Pos(x) == CHOOSE i \in DOMAIN pushed : pushed[i] = x
InPushOrder(s) ==
    \A j, k \in DOMAIN s : j < k => Pos(s[j]) < Pos(s[k])

\* C1: the queue never holds more than max entries.
C1_CapacityBound == QSize(unguarded_queue) <= max

\* C2: every item moved into the queue is in exactly one place (resident,
\* returned by one dequeue, or evicted once), and the numbers add up.
C2_ExactlyOnePlace ==
    /\ \A i \in DOMAIN pushed :
          Occ(unguarded_queue, pushed[i]) + Occ(returned, pushed[i])
              + Occ(evicted, pushed[i]) = 1
    /\ Len(pushed) = Len(NonNull(unguarded_queue)) + Len(returned)
                        + Len(NonNull(evicted))

\* C3: FIFO. The items dequeue has returned, followed by the items still
\* resident, are in the order in which they were pushed (a batch in its vector
\* order), whatever was evicted in between.
C3_Fifo ==
    /\ \A i \in DOMAIN returned : Occ(pushed, returned[i]) = 1
    /\ InPushOrder(returned \o NonNull(unguarded_queue))

\* C3 witness: two items were dequeued after an eviction, a batch of two or
\* more among the calls.
C3_Witness ==
    /\ Len(returned) >= 2
    /\ Len(evicted) >= 1
    /\ Len(bulk) >= 2

\* C4: an enqueue that exceeds the capacity removes exactly the oldest
\* residents (never an item of its own batch), and n_dropped grows by the
\* number of entries it actually removed.
C4_EvictsOldest ==
    /\ call.removed = SubSeq(call.q0, 1, Len(call.removed))
    /\ n_dropped - call.d0 = Len(call.removed)
    /\ (call.done /\ event.op \in {"enqueue", "bulk"}) =>
          Len(unguarded_queue) = Len(call.q0) - Len(call.removed) + call.len


C6_ShutdownLiveness ==
    /\ [][\A c \in Consumers :
            (shutting_down /\ cpc[c] # "blocked") => cpc'[c] # "blocked"]_vars
    /\ \A c \in Consumers :
            (cpc[c] = "blocked" /\ shutting_down) ~> (cpc[c] = "idle")

\* C7: no empty unique_ptr is ever stored, and the counters count work items
\* only.
C7_NullSkipped ==
    /\ \A i \in DOMAIN unguarded_queue : unguarded_queue[i] # NULL
    /\ n_handled = Len(returned)
    /\ \A i \in DOMAIN evicted : evicted[i] # NULL

\* C8: an enqueue (single or bulk) that starts while the halt flag is true
\* changes nothing of the queue, the counters or the caller's vector: no
\* element is moved, pushed or evicted, and the call does not go on.
C8_RefusedOnHalt ==
    [][(/\ shutting_down
        /\ \E p \in Producers :
              \/ \E w \in {NULL, nextId} : enqueue(p, w)
              \/ \E shape \in Shapes : bulk_enter(p, Vector(shape, nextId)))
         => UNCHANGED <<queueVars, histVars, bulk, idx, evictLeft, nextId,
                        m, ppc, call>>
      ]_vars

\* C8 witness: a batch holding work items was refused under a true flag.
C8_Witness ==
    /\ shutting_down
    /\ event.op = "bulk_refused"
    /\ event.val >= 2
    /\ Len(unguarded_queue) >= 1

\* C9: a batch is inserted under one hold of the mutex (a thread between its
\* first pop and its last push holds it), and a batch of N work items leaves
\* the queue at its length before + N - the entries evicted, with every
\* element of the caller's vector empty.
C9_BulkAtomic ==
    /\ \A p \in Producers : ppc[p] \in {"evict", "push"} => m = p
    /\ (event.op = "bulk" /\ call.done /\ call.n = call.len) =>
          /\ Len(unguarded_queue) = Len(call.q0) + call.n - Len(call.removed)
          /\ \A i \in DOMAIN bulk : bulk[i] = NULL

\* C10: with the halt flag never set, dequeue never returns the empty
\* unique_ptr.
C10_NoNullWithoutHalt ==
    (event.op = "dequeue" /\ event.val = NULL) => shutting_down

\* C11: size() returns 0 when the halt flag is true at the call, whatever the
\* queue holds, and the number of stored entries otherwise; it changes
\* nothing (only the history of the last returned operation records it).
C11_SizeResult ==
    [][size => /\ event'.op = "size"
               /\ event'.val = IF shutting_down THEN 0 ELSE Len(unguarded_queue)
               /\ UNCHANGED <<shutting_down, max, unguarded_queue, skew,
                              n_dropped, n_handled, m, ppc, cpc, bulk,
                              evictLeft, idx, aborted>>]_vars

\* size() has just answered 0 on a halted queue that holds two entries.
C11_Witness ==
    /\ shutting_down
    /\ event = [op |-> "size", val |-> 0]
    /\ Len(unguarded_queue) >= 2

\* C12: dropped() returns the number of entries enqueue has evicted since
\* the previous dropped(), handled() the number of dequeues that have returned
\* an item since the previous handled(); each resets its counter, so that the
\* same call right after it returns 0, and leaves the other counter and the
\* queue alone.
C12_ReadAndReset ==
    [][/\ dropped => /\ event'.val = Len(evicted) - polled.markD
                     /\ n_dropped' = 0
                     /\ event.op = "dropped" => event'.val = 0
                     /\ UNCHANGED <<n_handled, unguarded_queue, skew>>
       /\ handled => /\ event'.val = Len(returned) - polled.markH
                     /\ n_handled' = 0
                     /\ event.op = "handled" => event'.val = 0
                     /\ UNCHANGED <<n_dropped, unguarded_queue, skew>>]_vars

\* C13: every increment is counted once: what handled() has returned so far
\* plus the handled counter is the number of dequeue calls that returned an
\* item (a dequeue that returns an empty pointer counts nothing), and what
\* dropped() has returned so far plus the dropped counter is the number of
\* entries evicted, whenever the mutex is free for a thread to read them.
C13_CountedOnce ==
    (m = Free /\ ~aborted) =>
        /\ polled.sumH + n_handled = Len(returned)
        /\ polled.sumD + n_dropped = Len(evicted)

\* C14: producers never block: a consumer that sleeps in its wait does not
\* hold the mutex, the mutex is always released again for a producer that
\* wants it, and every enqueue that has started returns.
C14_EnqueueTerminates ==
    /\ [](\A c \in Consumers :
            cpc[c] \in {"blocked", "timedout", "woken"} => m # c)
    /\ (m # Free) ~> (m = Free)
    /\ \A p \in Producers : (ppc[p] # "idle") ~> (ppc[p] = "idle")

\* C15: a setMax with a value below the current length changes the capacity
\* and nothing else: the queue and both counters stay as they are.
C15_SetMaxFrame ==
    [][\A value \in Capacities :
          (setMax(value) /\ value < Len(unguarded_queue)) =>
              /\ max' = value
              /\ UNCHANGED <<unguarded_queue, skew, n_dropped, n_handled>>]_vars

\* setMax has just set a capacity below the two entries the queue holds.
C15_Witness ==
    /\ event.op = "setMax"
    /\ max = event.val
    /\ max < Len(unguarded_queue)
    /\ Len(unguarded_queue) >= 2

\* C16: an accepted enqueue (single or bulk) that finds more entries than the
\* capacity, after setMax has lowered it, leaves at most max entries when it
\* returns.
C16_LazyEviction ==
    (/\ event.op \in {"enqueue", "bulk"}
     /\ call.done
     /\ Len(call.q0) > max) => Len(unguarded_queue) <= max

\* C17: with the halt flag set and cleared at any time, a dequeue that has
\* left its wait loop is in one of its two exit cases when it reads the flag
\* at line 128: the flag is true or the queue holds an entry; and no dequeue
\* ends without a return value.
C17_TwoExitCases ==
    /\ \A c \in Consumers :
          cpc[c] = "exit" => (shutting_down \/ ~QEmpty(unguarded_queue, skew))
    /\ event.val # GARBAGE

\* C18: no pop and no read of the head happens on an empty queue: an eviction
\* loop that has an iteration left finds an entry to pop, the deque's start
\* cursor never passes its finish cursor, and no pop has ended the process.
C18_NoPopOnEmpty ==
    /\ \A p \in Producers :
          (ppc[p] = "evict" /\ evictLeft > 0) => Len(unguarded_queue) > 0
    /\ skew = 0
    /\ ~aborted

\* A bulk enqueue is inside its critical section.
InBulk == \E p \in Producers : ppc[p] \in {"evict", "push"}

\* C19: a consumer blocked in dequeue while the queue holds an entry, or while
\* a bulk enqueue is putting its batch in, does not stay blocked forever: it
\* returns, or the other consumers have emptied the queue.
C19_NoLostWakeup ==
    \A c \in Consumers :
        (cpc[c] = "blocked" /\ (Len(unguarded_queue) > 0 \/ InBulk))
            ~> (cpc[c] = "idle" \/ (Len(unguarded_queue) = 0 /\ ~InBulk))

\* C20: in the value-type revision, dropped() returns the number of items
\* enqueue has discarded from a saturated queue since the previous dropped().
C20_DroppedCounts000 ==
    [][dropped_000 => event'.val = Len(evicted) - polled.markD]_vars

====
